---- MODULE Spec2Model ----
\* Model of the source-databricks connector: DatabricksStream (streams.py),
\* DatabricksClient (client.py) and SourceDatabricks (source.py).
\*
\* Python strings are sequences of one-character strings, compared by code
\* point; Python values are tagged records (str / int / None), so that the
\* truthiness tests, the string formatting and the `>` comparison of the
\* source behave as they do in Python, TypeError included.
EXTENDS Integers, Sequences, FiniteSets, TLC

VARIABLES
    config,          \* the configuration mapping handed to the connector
    stream_state,    \* the state mapping the host hands to the stream
    initial_state,   \* ghost: stream_state before the first call
    seen,            \* ghost: cursor-field values of the records processed
    raised,          \* TRUE when the latest get_updated_state call raised
                     \* (in a run of syncs: when a call so far has raised)
    calls,           \* number of get_updated_state calls made so far
    op,              \* the connector operation the host has called
    sync_mode,       \* the sync_mode argument of read_records
    pc,              \* position of the call
    statement,       \* statements handed to cursor.execute, in order
    open_connections,    \* connections opened and not yet closed
    open_cursors,        \* cursors opened and not yet closed
    opened_connections,  \* connections opened since the call began
    opened_cursors,      \* cursors opened since the call began
    columns,         \* column names read from cursor.description
    fetched,         \* <<>> or <<r>>: what fetchone / fetchall returned
    exception,       \* <<>> or <<text>>: the exception raised inside the call
    result,          \* how the call ended: a return value or a raise
    table,           \* the cursor column of the rows of the configured table
    pending,         \* records read_records has still to yield in this sync
    emitted_now,     \* ghost: rows whose record this sync has yielded
    emitted_before,  \* ghost: rows whose record an earlier sync yielded
    syncs            \* number of syncs ended so far

----------------------------------------------------------------------------
\* Bounds

MaxStrLen == 2
MaxCalls == 2
MaxAbsInt == 1

----------------------------------------------------------------------------
\* Python values

PyStr(s) == [ty |-> "str", s |-> s, n |-> 0]
PyInt(n) == [ty |-> "int", s |-> <<>>, n |-> n]
PyNone == [ty |-> "none", s |-> <<>>, n |-> 0]
\* a datetime: the n-th instant of the model's clock
PyDatetime(n) == [ty |-> "datetime", s |-> <<>>, n |-> n]

\* bool(v): empty string, 0 and None are falsy
Truthy(v) ==
    CASE v.ty = "str" -> v.s # <<>>
      [] v.ty = "int" -> v.n # 0
      [] v.ty = "none" -> FALSE
      [] OTHER -> TRUE

\* code points of the characters that occur in cursor values
Ord ==
    ("'" :> 39) @@ ("-" :> 45) @@ ("0" :> 48) @@ ("1" :> 49) @@ ("2" :> 50) @@
    ("3" :> 51) @@ ("4" :> 52) @@ ("5" :> 53) @@ ("6" :> 54) @@ ("7" :> 55) @@
    ("8" :> 56) @@ ("9" :> 57) @@ ("T" :> 84)

RECURSIVE StrGreater(_, _)
\* a > b on two str: lexicographic by code point
StrGreater(a, b) ==
    IF a = <<>> THEN FALSE
    ELSE IF b = <<>> THEN TRUE
    ELSE IF Ord[Head(a)] > Ord[Head(b)] THEN TRUE
    ELSE IF Ord[Head(a)] < Ord[Head(b)] THEN FALSE
    ELSE StrGreater(Tail(a), Tail(b))

\* a > b raises TypeError unless both are str, both int or both datetime
Comparable(a, b) == a.ty = b.ty /\ a.ty # "none"

Greater(a, b) ==
    IF a.ty = "str" THEN StrGreater(a.s, b.s) ELSE a.n > b.n

\* dict.get(key, default)
DictGet(d, key, default) == IF key \in DOMAIN d THEN d[key] ELSE default

\* d[key] = value
DictSet(d, key, value) ==
    [k \in (DOMAIN d) \cup {key} |-> IF k = key THEN value ELSE d[k]]

EmptyDict == [k \in {} |-> PyNone]

----------------------------------------------------------------------------
\* DatabricksStream.__init__

id_col == <<"i", "d">>

updated_at == <<"u", "p", "d", "a", "t", "e", "d", "_", "a", "t">>

\* self.cursor_field = config.get("cursor_field", self.cursor_field)
cursor_field(cfg) == DictGet(cfg, "cursor_field", PyStr(updated_at))

\* self.sync_mode = "incremental" if self.cursor_field else "full_refresh"
stream_sync_mode(cfg) ==
    IF Truthy(cursor_field(cfg)) THEN "incremental" ELSE "full_refresh"

----------------------------------------------------------------------------
\* DatabricksStream.get_updated_state

\* the comparison raises TypeError
get_updated_state_raises(cfg, state, latest_record) ==
    /\ stream_sync_mode(cfg) = "incremental"
    /\ Truthy(cursor_field(cfg))
    /\ LET cf == cursor_field(cfg).s
           current_cursor_value == DictGet(state, cf, PyStr(<<>>))
           latest_cursor_value == DictGet(latest_record, cf, PyStr(<<>>))
       IN  /\ Truthy(latest_cursor_value)
           /\ ~Comparable(latest_cursor_value, current_cursor_value)

\* get_updated_state with the comparison reversed (latest < current)
get_updated_state_reversed(cfg, state, latest_record) ==
    IF stream_sync_mode(cfg) = "incremental" /\ Truthy(cursor_field(cfg))
    THEN LET cf == cursor_field(cfg).s
             current_cursor_value == DictGet(state, cf, PyStr(<<>>))
             latest_cursor_value == DictGet(latest_record, cf, PyStr(<<>>))
         IN  IF /\ Truthy(latest_cursor_value)
                /\ Comparable(latest_cursor_value, current_cursor_value)
                /\ Greater(current_cursor_value, latest_cursor_value)
             THEN DictSet(state, cf, latest_cursor_value)
             ELSE state
    ELSE state

\* get_updated_state with an else branch that resets the stored cursor
get_updated_state_reset(cfg, state, latest_record) ==
    IF stream_sync_mode(cfg) = "incremental" /\ Truthy(cursor_field(cfg))
    THEN LET cf == cursor_field(cfg).s
             current_cursor_value == DictGet(state, cf, PyStr(<<>>))
             latest_cursor_value == DictGet(latest_record, cf, PyStr(<<>>))
         IN  IF /\ Truthy(latest_cursor_value)
                /\ Comparable(latest_cursor_value, current_cursor_value)
                /\ Greater(latest_cursor_value, current_cursor_value)
             THEN DictSet(state, cf, latest_cursor_value)
             ELSE DictSet(state, cf, PyStr(<<>>))
    ELSE state

\* get_updated_state without the test of the stream's sync mode, writing
\* under the default cursor field when none is configured
get_updated_state_any_mode(cfg, state, latest_record) ==
    LET cf == IF Truthy(cursor_field(cfg)) THEN cursor_field(cfg).s
              ELSE updated_at
        current_cursor_value == DictGet(state, cf, PyStr(<<>>))
        latest_cursor_value == DictGet(latest_record, cf, PyStr(<<>>))
    IN  IF /\ Truthy(latest_cursor_value)
           /\ Comparable(latest_cursor_value, current_cursor_value)
           /\ Greater(latest_cursor_value, current_cursor_value)
        THEN DictSet(state, cf, latest_cursor_value)
        ELSE state

\* the state mapping after the call (mutated in place; a call that raises
\* raises in the comparison, before the assignment)
get_updated_state(cfg, state, latest_record) ==
    IF stream_sync_mode(cfg) = "incremental" /\ Truthy(cursor_field(cfg))
    THEN LET cf == cursor_field(cfg).s
             current_cursor_value == DictGet(state, cf, PyStr(<<>>))
             latest_cursor_value == DictGet(latest_record, cf, PyStr(<<>>))
         IN  IF /\ Truthy(latest_cursor_value)
                /\ Comparable(latest_cursor_value, current_cursor_value)
                /\ Greater(latest_cursor_value, current_cursor_value)
             THEN DictSet(state, cf, latest_cursor_value)
             ELSE state
    ELSE state

----------------------------------------------------------------------------
\* Python string operations

RECURSIVE IsPrefix(_, _)
IsPrefix(p, s) ==
    IF p = <<>> THEN TRUE
    ELSE IF s = <<>> THEN FALSE
    ELSE Head(p) = Head(s) /\ IsPrefix(Tail(p), Tail(s))

RECURSIVE Contains(_, _)
\* sub in s
Contains(s, sub) ==
    IF IsPrefix(sub, s) THEN TRUE
    ELSE IF s = <<>> THEN FALSE
    ELSE Contains(Tail(s), sub)

UpperToLower ==
    ("A" :> "a") @@ ("B" :> "b") @@ ("C" :> "c") @@ ("D" :> "d") @@
    ("E" :> "e") @@ ("F" :> "f") @@ ("G" :> "g") @@ ("H" :> "h") @@
    ("I" :> "i") @@ ("J" :> "j") @@ ("K" :> "k") @@ ("L" :> "l") @@
    ("M" :> "m") @@ ("N" :> "n") @@ ("O" :> "o") @@ ("P" :> "p") @@
    ("Q" :> "q") @@ ("R" :> "r") @@ ("S" :> "s") @@ ("T" :> "t") @@
    ("U" :> "u") @@ ("V" :> "v") @@ ("W" :> "w") @@ ("X" :> "x") @@
    ("Y" :> "y") @@ ("Z" :> "z")

LowerChar(c) == IF c \in DOMAIN UpperToLower THEN UpperToLower[c] ELSE c

\* s.lower()
Lower(s) == [i \in 1..Len(s) |-> LowerChar(s[i])]

RECURSIVE BeforeFirst(_, _)
\* s.split(sep)[0] for a one-character sep
BeforeFirst(s, sep) ==
    IF s = <<>> \/ Head(s) = sep THEN <<>>
    ELSE <<Head(s)>> \o BeforeFirst(Tail(s), sep)

DigitChars == <<"0", "1", "2", "3", "4", "5", "6", "7", "8", "9">>

RECURSIVE NatToStr(_)
NatToStr(n) ==
    IF n < 10 THEN <<DigitChars[n + 1]>>
    ELSE NatToStr(n \div 10) \o <<DigitChars[(n % 10) + 1]>>

\* the text an f-string puts in place of {v}
Format(v) ==
    CASE v.ty = "str" -> v.s
      [] v.ty = "int" ->
            IF v.n < 0 THEN <<"-">> \o NatToStr(0 - v.n) ELSE NatToStr(v.n)
      [] OTHER -> <<"N", "o", "n", "e">>

----------------------------------------------------------------------------
\* DatabricksClient: the statements it builds

SELECT_FROM ==
    <<"S", "E", "L", "E", "C", "T", " ", "*", " ", "F", "R", "O", "M", " ">>

WHERE ==
    <<" ", "W", "H", "E", "R", "E", " ">>

GREATER_QUOTE ==
    <<" ", ">", " ", "'">>

QUOTE ==
    <<"'">>

ORDER_BY ==
    <<" ", "O", "R", "D", "E", "R", " ", "B", "Y", " ">>

LIMIT ==
    <<" ", "L", "I", "M", "I", "T", " ">>

DESCRIBE_TABLE ==
    <<"\n", " ", " ", " ", " ", " ", " ", " ", " ", "D", "E", "S", "C",
      "R", "I", "B", "E", " ", "T", "A", "B", "L", "E", " ">>

DESCRIBE_END ==
    <<"\n", " ", " ", " ", " ", " ", " ", " ", " ">>

SELECT_1 ==
    <<"S", "E", "L", "E", "C", "T", " ", "1">>

\* self.catalog, self.schema, self.table = config.get(...)
table_reference(cfg) ==
    Format(DictGet(cfg, "catalog", PyNone)) \o <<".">>
        \o Format(DictGet(cfg, "schema", PyNone)) \o <<".">>
        \o Format(DictGet(cfg, "table", PyNone))

\* the query get_table_schema hands to execute_query
get_table_schema_query(cfg) ==
    DESCRIBE_TABLE \o table_reference(cfg) \o DESCRIBE_END

\* the query get_table_data hands to execute_query
get_table_data_query(cfg, limit, cursor_field_arg, cursor_value) ==
    LET q0 == SELECT_FROM \o table_reference(cfg)
        q1 == IF Truthy(cursor_field_arg) /\ Truthy(cursor_value)
              THEN q0 \o WHERE \o Format(cursor_field_arg) \o GREATER_QUOTE
                      \o Format(cursor_value) \o QUOTE
              ELSE q0
        q2 == IF Truthy(cursor_field_arg)
              THEN q1 \o ORDER_BY \o Format(cursor_field_arg)
              ELSE q1
    IN  IF Truthy(limit) THEN q2 \o LIMIT \o Format(limit) ELSE q2

----------------------------------------------------------------------------
\* DatabricksStream.read_records: the statement it asks for

\* bool(stream_state): the empty mapping is falsy (a stream_state of None is
\* falsy too and is read nowhere else, so it behaves as the empty mapping)
StateTruthy(state) == DOMAIN state # {}

\* read_records that filters and orders whatever the requested sync mode
read_records_query_any_mode(cfg, mode, state) ==
    LET cursor_value ==
            IF StateTruthy(state) /\ Truthy(cursor_field(cfg))
            THEN DictGet(state, cursor_field(cfg).s, PyNone)
            ELSE PyNone
    IN  get_table_data_query(cfg, PyNone, cursor_field(cfg), cursor_value)

\* read_records that takes the filter value from the wrong default
read_records_query_no_value(cfg, mode, state) ==
    get_table_data_query(cfg, PyNone,
        IF mode = "incremental" THEN cursor_field(cfg) ELSE PyNone, PyNone)

read_records_query(cfg, mode, state) ==
    LET cursor_value ==
            IF mode = "incremental" /\ StateTruthy(state)
                   /\ Truthy(cursor_field(cfg))
            THEN DictGet(state, cursor_field(cfg).s, PyNone)
            ELSE PyNone
    IN  get_table_data_query(cfg, PyNone,
            IF mode = "incremental" THEN cursor_field(cfg) ELSE PyNone,
            cursor_value)

----------------------------------------------------------------------------
\* DatabricksStream.get_json_schema

type_mapping ==
    (<<"s", "t", "r", "i", "n", "g">> :> "string") @@
    (<<"v", "a", "r", "c", "h", "a", "r">> :> "string") @@
    (<<"c", "h", "a", "r">> :> "string") @@
    (<<"t", "e", "x", "t">> :> "string") @@
    (<<"i", "n", "t">> :> "integer") @@
    (<<"i", "n", "t", "e", "g", "e", "r">> :> "integer") @@
    (<<"b", "i", "g", "i", "n", "t">> :> "integer") @@
    (<<"l", "o", "n", "g">> :> "integer") @@
    (<<"d", "o", "u", "b", "l", "e">> :> "number") @@
    (<<"f", "l", "o", "a", "t">> :> "number") @@
    (<<"d", "e", "c", "i", "m", "a", "l">> :> "number") @@
    (<<"b", "o", "o", "l", "e", "a", "n">> :> "boolean") @@
    (<<"b", "o", "o", "l">> :> "boolean") @@
    (<<"d", "a", "t", "e">> :> "string") @@
    (<<"t", "i", "m", "e", "s", "t", "a", "m", "p">> :> "string") @@
    (<<"d", "a", "t", "e", "t", "i", "m", "e">> :> "string") @@
    (<<"b", "i", "n", "a", "r", "y">> :> "string") @@
    (<<"a", "r", "r", "a", "y">> :> "array") @@
    (<<"m", "a", "p">> :> "object") @@
    (<<"s", "t", "r", "u", "c", "t">> :> "object")

\* _map_databricks_type_to_json, for a str argument
_map_databricks_type_to_json(databricks_type) ==
    LET base_type == Lower(BeforeFirst(databricks_type, "("))
    IN  IF base_type \in DOMAIN type_mapping
        THEN type_mapping[base_type]
        ELSE "string"

HEADER_MARKER == <<"#", " ", "c", "o", "l", "_", "n", "a", "m", "e">>

NULLABLE == <<"n", "u", "l", "l", "a", "b", "l", "e">>

\* the column is kept: if column_name and column_name != "# col_name"
KeepsColumn(column) ==
    LET column_name == DictGet(column, "col_name", PyStr(<<>>))
    IN  Truthy(column_name) /\ column_name # PyStr(HEADER_MARKER)

\* processing the column raises: databricks_type.split or comment.lower()
\* on a value that is not a str
ColumnRaises(column) ==
    /\ KeepsColumn(column)
    /\ \/ DictGet(column, "data_type", PyStr(<<"s", "t", "r", "i", "n", "g">>)).ty # "str"
       \/ DictGet(column, "comment", PyStr(<<>>)).ty # "str"

RECURSIVE schema_loop(_, _, _)
\* the for loop over schema_data; properties and required as built so far
schema_loop(schema_data, properties, required) ==
    IF schema_data = <<>>
    THEN [raised |-> FALSE, properties |-> properties, required |-> required]
    ELSE LET column == Head(schema_data)
             column_name == DictGet(column, "col_name", PyStr(<<>>))
             column_type == DictGet(column, "data_type", PyStr(<<"s", "t", "r", "i", "n", "g">>))
             comment == DictGet(column, "comment", PyStr(<<>>))
         IN  IF ~KeepsColumn(column)
             THEN schema_loop(Tail(schema_data), properties, required)
             ELSE IF ColumnRaises(column)
             THEN [raised |-> TRUE, properties |-> properties,
                   required |-> required]
             ELSE schema_loop(Tail(schema_data),
                      DictSet(properties, column_name.s,
                              _map_databricks_type_to_json(column_type.s)),
                      IF ~Contains(Lower(comment.s), NULLABLE)
                      THEN Append(required, column_name.s)
                      ELSE required)

data_col == <<"d", "a", "t", "a">>

\* the basic schema returned by the except branch
FallbackSchema ==
    [type |-> "object",
     properties |-> (id_col :> "string") @@ (data_col :> "string"),
     required |-> <<id_col>>]

\* get_json_schema that returns what the loop built before the failure
schema_of_rows_partial(schema_data) ==
    LET built == schema_loop(schema_data, EmptyDict, <<>>)
    IN  [type |-> "object", properties |-> built.properties,
         required |-> built.required]

\* what get_json_schema returns once get_table_schema has returned rows
schema_of_rows(schema_data) ==
    LET built == schema_loop(schema_data, EmptyDict, <<>>)
    IN  IF built.raised THEN FallbackSchema
        ELSE [type |-> "object", properties |-> built.properties,
              required |-> built.required]

----------------------------------------------------------------------------
\* DatabricksStream.name and DatabricksStream._process_record

DEFAULT == <<"d", "e", "f", "a", "u", "l", "t">>

\* name with the parts joined by the dots of the table reference
name_dotted(cfg) ==
    Format(DictGet(cfg, "catalog", PyStr(DEFAULT))) \o <<".">>
        \o Format(DictGet(cfg, "schema", PyStr(DEFAULT))) \o <<".">>
        \o Format(DictGet(cfg, "table", PyStr(DEFAULT)))

name(cfg) ==
    Format(DictGet(cfg, "catalog", PyStr(DEFAULT))) \o <<"_">>
        \o Format(DictGet(cfg, "schema", PyStr(DEFAULT))) \o <<"_">>
        \o Format(DictGet(cfg, "table", PyStr(DEFAULT)))

\* value.isoformat(): the ISO-8601 text of the n-th instant, shortened to
\* the part that tells the instants apart
isoformat(value) == PyStr(<<"T">> \o NatToStr(value.n))

_process_record(record) ==
    [key \in DOMAIN record |->
        IF record[key].ty = "datetime" THEN isoformat(record[key])
        ELSE record[key]]

\* dict(zip(columns, row))
Zip(cols, row) ==
    LET n == IF Len(cols) < Len(row) THEN Len(cols) ELSE Len(row)
    IN  [k \in {cols[i] : i \in 1..n} |->
            row[CHOOSE i \in 1..n :
                    cols[i] = k /\ \A j \in (i + 1)..n : cols[j] # k]]

----------------------------------------------------------------------------
\* Inputs

RECURSIVE StringsUpTo(_)
StringsUpTo(n) ==
    IF n = 0 THEN {<<>>}
    ELSE LET shorter == StringsUpTo(n - 1)
         IN  shorter \cup {Append(s, c) : s \in shorter, c \in {"1", "2"}}

\* the values a cursor column or a stored cursor can hold
CursorValues ==
    {PyStr(s) : s \in StringsUpTo(MaxStrLen)}
        \cup {PyInt(n) : n \in (0 - MaxAbsInt)..MaxAbsInt}
        \cup {PyNone}

\* mappings with an optional entry under key and an optional other entry
DictsOver(key, other) ==
    {EmptyDict} \cup {DictSet(EmptyDict, key, v) : v \in CursorValues}
        \cup {DictSet(EmptyDict, other, PyStr(<<"1">>))}
        \cup {DictSet(DictSet(EmptyDict, other, PyStr(<<"1">>)), key, v) :
                 v \in CursorValues}

Names == {<<"c">>, <<"s", "t">>}

BaseConfigs ==
    {("catalog" :> PyStr(c)) @@ ("schema" :> PyStr(s)) @@ ("table" :> PyStr(t)) :
        c \in Names, s \in Names, t \in Names}

\* cursor_field left out, empty, null, or naming a column
CursorConfigs ==
    BaseConfigs
        \cup {DictSet(b, "cursor_field", v) :
                 b \in BaseConfigs, v \in {PyStr(<<>>), PyNone, PyStr(id_col)}}

\* with the required connection settings, or without workspace_url
Configs ==
    CursorConfigs
        \cup {DictSet(DictSet(b, "workspace_url", PyStr(<<"h">>)),
                      "personal_access_token", PyStr(<<"p">>)) :
                 b \in CursorConfigs}

\* the other column of the two the model knows
OtherColumn(cfg) ==
    IF cursor_field(cfg) = PyStr(id_col) THEN updated_at ELSE id_col

\* the column get_updated_state reads and writes
CursorKey(cfg) ==
    IF Truthy(cursor_field(cfg)) THEN cursor_field(cfg).s ELSE updated_at

----------------------------------------------------------------------------
\* The host applying get_updated_state to the records of one sync

state_vars == <<config, stream_state, initial_state, seen, raised, calls>>

call_vars == <<op, sync_mode, pc, statement, open_connections, open_cursors,
               opened_connections, opened_cursors, columns, fetched,
               exception, result>>

sync_vars == <<table, pending, emitted_now, emitted_before, syncs>>

vars == <<state_vars, call_vars, sync_vars>>

\* no sync in progress and no table contents
SyncIdle ==
    /\ table = <<>>
    /\ pending = <<>>
    /\ emitted_now = {}
    /\ emitted_before = {}
    /\ syncs = 0

NoResult == [outcome |-> "none", value |-> <<>>]

\* no call in progress
CallIdle ==
    /\ op = "none"
    /\ sync_mode = "incremental"
    /\ pc = "done"
    /\ statement = <<>>
    /\ open_connections = 0
    /\ open_cursors = 0
    /\ opened_connections = 0
    /\ opened_cursors = 0
    /\ columns = <<>>
    /\ fetched = <<>>
    /\ exception = <<>>
    /\ result = NoResult

StateInit ==
    /\ config \in {c \in Configs : "workspace_url" \in DOMAIN c
                                   /\ c["catalog"] = PyStr(<<"c">>)
                                   /\ c["schema"] = PyStr(<<"c">>)
                                   /\ c["table"] = PyStr(<<"c">>)}
    /\ stream_state \in DictsOver(CursorKey(config), OtherColumn(config))
    /\ initial_state = stream_state
    /\ seen = {}
    /\ raised = FALSE
    /\ calls = 0
    /\ CallIdle
    /\ SyncIdle

\* one call of get_updated_state(current_stream_state, latest_record)
GetUpdatedState(latest_record) ==
    /\ calls < MaxCalls
    /\ stream_state' = get_updated_state(config, stream_state, latest_record)
    /\ raised' = get_updated_state_raises(config, stream_state, latest_record)
    /\ seen' = seen \cup
            {DictGet(latest_record, CursorKey(config), PyStr(<<>>))}
    /\ calls' = calls + 1
    /\ UNCHANGED <<config, initial_state, call_vars, sync_vars>>

\* records with the cursor column absent or holding a value
RecordsOver(key) ==
    {EmptyDict} \cup {DictSet(EmptyDict, key, v) : v \in CursorValues}

StateNext ==
    \E r \in RecordsOver(CursorKey(config)) : GetUpdatedState(r)

StateSpec == StateInit /\ [][StateNext]_vars

Incremental == stream_sync_mode(config) = "incremental"

Stored(state) == DictGet(state, CursorKey(config), PyStr(<<>>))

\* C1: on a stream operating incrementally, the value stored under the
\* cursor field never decreases from one call to the next under the
\* comparison the code uses: a call leaves it alone or replaces it by a
\* strictly greater value.
C1_Monotonic ==
    [][Incremental =>
          \/ Stored(stream_state') = Stored(stream_state)
          \/ /\ Comparable(Stored(stream_state'), Stored(stream_state))
             /\ Greater(Stored(stream_state'), Stored(stream_state))]_vars

C1_Witness ==
    /\ Incremental
    /\ calls = 2
    /\ Stored(stream_state) # Stored(initial_state)
    /\ Cardinality(seen) = 2

\* C2: after any sequence of calls in one incremental sync, the stored value
\* is the maximum of the value stored before the first call (empty string
\* if absent) and the cursor values of all records processed so far.
C2_MaxOfSeen ==
    Incremental =>
        LET candidates == {Stored(initial_state)} \cup seen
        IN  /\ Stored(stream_state) \in candidates
            /\ \A v \in candidates :
                   Comparable(v, Stored(stream_state))
                       => ~Greater(v, Stored(stream_state))

\* C3: replaying the same latest record right after it was applied leaves
\* the state as the first application left it, for every state and record.
C3_Idempotent ==
    \A r \in RecordsOver(CursorKey(config)) :
        LET once == get_updated_state(config, stream_state, r)
        IN  get_updated_state(config, once, r) = once

\* C12: on a stream that is not operating incrementally (its sync mode is
\* full_refresh: no cursor field configured) get_updated_state returns the
\* state with exactly the entries and values passed in, for every state and
\* record, and does not raise.
C12_FullRefreshStateUntouched ==
    [][~Incremental => (stream_state' = stream_state /\ ~raised')]_vars

C12_Witness ==
    /\ ~Incremental
    /\ calls = 2
    /\ Stored(stream_state) = PyStr(<<"1">>)
    /\ PyStr(<<"2">>) \in seen
    /\ DOMAIN stream_state = {updated_at, id_col}
    /\ stream_state = initial_state

C3_Witness ==
    /\ Incremental
    /\ calls > 0
    /\ Stored(stream_state) # Stored(initial_state)
    /\ \E r \in RecordsOver(CursorKey(config)) :
          get_updated_state(config, stream_state, r) # stream_state

----------------------------------------------------------------------------
\* Inputs of the calls that reach the warehouse

MaxRows == 2

SeqsUpTo(S, n) == UNION {[1..k -> S] : k \in 0..n}

\* texts of the exceptions the databricks-sql driver raises
ErrorTexts == {"timeout", "denied"}

\* rows of DESCRIBE TABLE: col_name, data_type, comment (null where unset)
CatalogRows ==
    {
     <<PyStr(<<"#", " ", "c", "o", "l", "_", "n", "a", "m", "e">>), PyStr(<<"d", "a", "t", "a", "_", "t", "y", "p", "e">>), PyStr(<<"c", "o", "m", "m", "e", "n", "t">>)>>,
     <<PyStr(<<"i", "d">>), PyStr(<<"b", "i", "g", "i", "n", "t">>), PyStr(<<>>)>>,
     <<PyStr(<<"n", "o", "t", "e">>), PyStr(<<"s", "t", "r", "i", "n", "g">>), PyStr(<<"n", "u", "l", "l", "a", "b", "l", "e", " ", "f", "i", "e", "l", "d">>)>>,
     <<PyStr(<<"i", "d">>), PyStr(<<"d", "e", "c", "i", "m", "a", "l", "(", "1", "0", ",", "2", ")">>), PyStr(<<"N", "U", "L", "L", "A", "B", "L", "E">>)>>,
     <<PyStr(<<"n", "o", "t", "e">>), PyStr(<<"V", "A", "R", "C", "H", "A", "R", "(", "2", "5", "5", ")">>), PyStr(<<"n", "o", "t", " ", "n", "u", "l", "l">>)>>,
     <<PyStr(<<>>), PyStr(<<"i", "n", "t">>), PyStr(<<>>)>>,
     <<PyStr(<<"n", "o", "t", "e">>), PyStr(<<"u", "n", "k", "n", "o", "w", "n", "_", "t", "y", "p", "e">>), PyNone>>,
     <<PyStr(<<"i", "d">>), PyNone, PyStr(<<>>)>>,
     <<PyNone, PyNone, PyNone>>,
     <<PyStr(<<"d", "a", "t", "a">>), PyStr(<<"a", "r", "r", "a", "y", "<", "i", "n", "t", ">">>), PyStr(<<>>)>>
    }

CatalogColumns ==
    {<<"col_name", "data_type", "comment">>, <<"col_name", "data_type">>}

\* rows of the table: the cursor column and one other column
TableRows ==
    {<<v, PyStr(<<"1">>)>> :
        v \in {PyStr(<<"1">>), PyStr(<<"2">>), PyInt(1), PyNone, PyDatetime(1)}}

TableColumns(cfg) ==
    {<<CursorKey(cfg), OtherColumn(cfg)>>, <<OtherColumn(cfg)>>}

\* what fetchone can return for the probe: no row (None) or one row
ProbeResults ==
    {<<>>, <<<<>>>>, <<<<PyInt(1)>>>>, <<<<PyInt(0)>>>>, <<<<PyStr(<<"1">>)>>>>,
     <<<<PyInt(1), PyInt(0)>>>>}

----------------------------------------------------------------------------
\* The calls: SourceDatabricks.check_connection and .streams,
\* DatabricksStream.get_json_schema and .read_records, the last two through
\* DatabricksClient.execute_query

Ops == {"check_connection", "streams", "get_json_schema", "read_records"}

\* callers of DatabricksClient.execute_query
ViaExecuteQuery == {"get_json_schema", "read_records"}

Init ==
    /\ config \in Configs
    /\ stream_state = EmptyDict
    /\ initial_state = EmptyDict
    /\ seen = {}
    /\ raised = FALSE
    /\ calls = 0
    /\ op = "none"
    /\ sync_mode = "full_refresh"
    /\ pc = "idle"
    /\ statement = <<>>
    /\ open_connections = 0
    /\ open_cursors = 0
    /\ opened_connections = 0
    /\ opened_cursors = 0
    /\ columns = <<>>
    /\ fetched = <<>>
    /\ exception = <<>>
    /\ result = NoResult
    /\ SyncIdle

\* the host calls an operation; a stream exists only if its constructor,
\* which builds a DatabricksClient, did not raise
Call(o, mode, state) ==
    /\ pc = "idle"
    /\ o \in ViaExecuteQuery => "workspace_url" \in DOMAIN config
    /\ op' = o
    /\ sync_mode' = mode
    /\ stream_state' = state
    /\ initial_state' = state
    /\ pc' = IF o \in ViaExecuteQuery THEN "connect" ELSE "construct"
    /\ statement' = <<>>
    /\ opened_connections' = 0
    /\ opened_cursors' = 0
    /\ columns' = <<>>
    /\ fetched' = <<>>
    /\ exception' = <<>>
    /\ result' = NoResult
    /\ UNCHANGED <<config, seen, raised, calls, open_connections, open_cursors,
                   sync_vars>>

\* leaving a with block without closing what it holds
with_exit_leak(open) == open

\* leaving a with block: __exit__ closes the connection or the cursor
with_exit(open) == open - 1

\* check_connection reporting a fixed text in place of str(e)
failure_result_fixed_text(o, text) ==
    CASE o = "check_connection" ->
            [outcome |-> "return",
             value |-> <<FALSE, <<"Connection test query failed">>>>]
      [] o = "get_json_schema" ->
            [outcome |-> "return", value |-> FallbackSchema]
      [] OTHER -> [outcome |-> "raise", value |-> text]

\* read_records that logs the exception and yields nothing
failure_result_swallowed(o, text) ==
    CASE o = "check_connection" ->
            [outcome |-> "return", value |-> <<FALSE, <<text>>>>]
      [] o = "get_json_schema" ->
            [outcome |-> "return", value |-> FallbackSchema]
      [] OTHER -> [outcome |-> "return", value |-> <<>>]

\* how the call ends when an exception with this text is raised inside it:
\* check_connection returns (False, str(e)); execute_query logs and
\* re-raises, get_json_schema then returns the basic schema and
\* read_records re-raises
failure_result(o, text) ==
    CASE o = "check_connection" ->
            [outcome |-> "return", value |-> <<FALSE, <<text>>>>]
      [] o = "get_json_schema" ->
            [outcome |-> "return", value |-> FallbackSchema]
      [] OTHER -> [outcome |-> "raise", value |-> text]

\* an exception raised at the current position unwinds the with blocks
Fails(text) ==
    /\ exception' = <<text>>
    /\ result' = failure_result(op, text)
    /\ pc' = "done"
    /\ open_cursors' =
           IF open_cursors > 0 THEN with_exit(open_cursors) ELSE open_cursors
    /\ open_connections' =
           IF open_connections > 0 THEN with_exit(open_connections)
           ELSE open_connections
    /\ UNCHANGED <<state_vars, sync_vars, op, sync_mode, opened_connections,
                   opened_cursors, columns, fetched>>

\* DatabricksClient(config) / DatabricksStream(config): config["workspace_url"]
Construct ==
    /\ pc = "construct"
    /\ IF "workspace_url" \in DOMAIN config
       THEN /\ IF op = "streams"
               THEN /\ result' = [outcome |-> "return",
                                  value |-> <<name(config)>>]
                    /\ pc' = "done"
               ELSE /\ result' = result
                    /\ pc' = "connect"
            /\ UNCHANGED exception
       ELSE /\ exception' = <<"'workspace_url'">>
            /\ result' =
                   IF op = "streams"
                   THEN [outcome |-> "raise", value |-> "'workspace_url'"]
                   ELSE failure_result(op, "'workspace_url'")
            /\ pc' = "done"
    /\ UNCHANGED <<state_vars, sync_vars, op, sync_mode, statement, open_connections,
                   open_cursors, opened_connections, opened_cursors,
                   columns, fetched>>

\* self._get_connection()
Connect ==
    /\ pc = "connect"
    /\ open_connections' = open_connections + 1
    /\ opened_connections' = opened_connections + 1
    /\ pc' = "cursor"
    /\ UNCHANGED <<state_vars, sync_vars, op, sync_mode, statement, open_cursors,
                   opened_cursors, columns, fetched, exception, result>>

ConnectFails(text) ==
    /\ pc = "connect"
    /\ Fails(text)
    /\ UNCHANGED statement

\* connection.cursor()
OpenCursor ==
    /\ pc = "cursor"
    /\ open_cursors' = open_cursors + 1
    /\ opened_cursors' = opened_cursors + 1
    /\ pc' = "execute"
    /\ UNCHANGED <<state_vars, sync_vars, op, sync_mode, statement, open_connections,
                   opened_connections, columns, fetched, exception, result>>

OpenCursorFails(text) ==
    /\ pc = "cursor"
    /\ Fails(text)
    /\ UNCHANGED statement

\* the statement the call hands to cursor.execute
Query ==
    CASE op = "check_connection" -> SELECT_1
      [] op = "get_json_schema" -> get_table_schema_query(config)
      [] OTHER -> read_records_query(config, sync_mode, stream_state)

\* cursor.execute(query)
Execute ==
    /\ pc = "execute"
    /\ statement' = Append(statement, Query)
    /\ pc' = IF op = "check_connection" THEN "fetchone" ELSE "description"
    /\ UNCHANGED <<state_vars, sync_vars, op, sync_mode, open_connections, open_cursors,
                   opened_connections, opened_cursors, columns, fetched,
                   exception, result>>

ExecuteFails(text) ==
    /\ pc = "execute"
    /\ statement' = Append(statement, Query)
    /\ Fails(text)

\* columns = [desc[0] for desc in cursor.description]
Description(cols) ==
    /\ pc = "description"
    /\ columns' = cols
    /\ pc' = "fetchall"
    /\ UNCHANGED <<state_vars, sync_vars, op, sync_mode, statement, open_connections,
                   open_cursors, opened_connections, opened_cursors, fetched,
                   exception, result>>

\* cursor.description is None: the comprehension raises TypeError
DescriptionFails ==
    /\ pc = "description"
    /\ Fails("'NoneType' object is not iterable")
    /\ UNCHANGED statement

\* the records read_records yields
read_records_result(records) ==
    [outcome |-> "return",
     value |-> [i \in 1..Len(records) |-> _process_record(records[i])]]

\* rows = cursor.fetchall(); return [dict(zip(columns, row)) for row in rows]
\* and, in the caller, the schema built from the rows or the records yielded
FetchAll(rows) ==
    /\ pc = "fetchall"
    /\ fetched' = <<rows>>
    /\ LET records == [i \in 1..Len(rows) |-> Zip(columns, rows[i])]
       IN  IF op = "get_json_schema"
           THEN /\ result' = [outcome |-> "return",
                              value |-> schema_of_rows(records)]
                /\ exception' =
                       IF schema_loop(records, EmptyDict, <<>>).raised
                       THEN <<"AttributeError">>
                       ELSE <<>>
           ELSE /\ result' = read_records_result(records)
                /\ exception' = <<>>
    /\ open_cursors' = with_exit(open_cursors)
    /\ open_connections' = with_exit(open_connections)
    /\ pc' = "done"
    /\ UNCHANGED <<state_vars, sync_vars, op, sync_mode, statement, opened_connections,
                   opened_cursors, columns>>

FetchAllFails(text) ==
    /\ pc = "fetchall"
    /\ Fails(text)
    /\ UNCHANGED statement

\* if result and len(result) > 0 and result[0] == 1
probe_result(probe) ==
    IF probe # <<>> /\ Len(probe[1]) > 0 /\ probe[1][1] = PyInt(1)
    THEN [outcome |-> "return", value |-> <<TRUE, <<>>>>]
    ELSE [outcome |-> "return",
          value |-> <<FALSE, <<"Connection test query failed">>>>]

\* result = cursor.fetchone() and the return that follows
FetchOne(probe) ==
    /\ pc = "fetchone"
    /\ fetched' = <<probe>>
    /\ result' = probe_result(probe)
    /\ open_cursors' = with_exit(open_cursors)
    /\ open_connections' = with_exit(open_connections)
    /\ pc' = "done"
    /\ UNCHANGED <<state_vars, sync_vars, op, sync_mode, statement, opened_connections,
                   opened_cursors, columns, exception>>

FetchOneFails(text) ==
    /\ pc = "fetchone"
    /\ Fails(text)
    /\ UNCHANGED statement

\* the call has ended and the host has taken its result; it may call again
Finish ==
    /\ pc = "done"
    /\ pc' = "idle"
    /\ op' = "none"
    /\ sync_mode' = "full_refresh"
    /\ stream_state' = EmptyDict
    /\ initial_state' = EmptyDict
    /\ statement' = <<>>
    /\ opened_connections' = 0
    /\ opened_cursors' = 0
    /\ columns' = <<>>
    /\ fetched' = <<>>
    /\ exception' = <<>>
    /\ result' = NoResult
    /\ UNCHANGED <<config, seen, raised, calls, open_connections, open_cursors,
                   sync_vars>>

Next ==
    \/ \E o \in Ops \ {"read_records"} : Call(o, "full_refresh", EmptyDict)
    \/ \E mode \in {"incremental", "full_refresh"},
          state \in DictsOver(CursorKey(config), OtherColumn(config)) :
          Call("read_records", mode, state)
    \/ Construct
    \/ Connect
    \/ \E text \in ErrorTexts : ConnectFails(text)
    \/ OpenCursor
    \/ \E text \in ErrorTexts : OpenCursorFails(text)
    \/ Execute
    \/ \E text \in ErrorTexts : ExecuteFails(text)
    \/ \E cols \in IF op = "get_json_schema" THEN CatalogColumns
                   ELSE TableColumns(config) : Description(cols)
    \/ DescriptionFails
    \/ \E rows \in IF op = "get_json_schema"
                   THEN SeqsUpTo(CatalogRows, MaxRows)
                   ELSE SeqsUpTo(TableRows, MaxRows) : FetchAll(rows)
    \/ \E text \in ErrorTexts : FetchAllFails(text)
    \/ \E probe \in ProbeResults : FetchOne(probe)
    \/ \E text \in ErrorTexts : FetchOneFails(text)
    \/ Finish

Spec == Init /\ [][Next]_vars

----------------------------------------------------------------------------
\* Claims about the calls

ReadDone == op = "read_records" /\ pc = "done"

\* C4: for a configured cursor field and a prior state holding a non-empty
\* value for it, the statement read_records issues in incremental mode
\* contains WHERE <field> > '<value>' followed by ORDER BY <field>, with the
\* value exactly as the prior state holds it.
C4_IncrementalFilter ==
    (/\ op = "read_records"
     /\ sync_mode = "incremental"
     /\ Truthy(cursor_field(config))
     /\ Truthy(DictGet(stream_state, CursorKey(config), PyNone)))
        => \A i \in 1..Len(statement) :
              Contains(statement[i],
                  <<" ", "W", "H", "E", "R", "E", " ">>
                      \o CursorKey(config) \o <<" ", ">", " ", "'">>
                      \o Format(stream_state[CursorKey(config)]) \o <<"'">>
                      \o <<" ", "O", "R", "D", "E", "R", " ", "B", "Y", " ">>
                      \o CursorKey(config))

C4_Witness ==
    /\ ReadDone
    /\ sync_mode = "incremental"
    /\ cursor_field(config) = PyStr(id_col)
    /\ DictGet(stream_state, id_col, PyNone) = PyStr(<<"1", "2">>)
    /\ Len(statement) = 1
    /\ result.outcome = "return"

\* C5: in full-refresh mode the statement read_records issues has no WHERE
\* clause, whether or not a cursor field is configured and whatever the
\* prior state.
C5_FullRefreshNoWhere ==
    (op = "read_records" /\ sync_mode = "full_refresh")
        => \A i \in 1..Len(statement) :
              ~Contains(statement[i], <<"W", "H", "E", "R", "E">>)

C5_Witness ==
    /\ ReadDone
    /\ sync_mode = "full_refresh"
    /\ Truthy(cursor_field(config))
    /\ Truthy(DictGet(stream_state, CursorKey(config), PyNone))
    /\ Len(statement) = 1
    /\ result.outcome = "return"

\* C6: check_connection never raises; it returns (True, None) when the probe
\* returns a single row containing 1, and (False, text) when an exception
\* with that text is raised while constructing the client, connecting,
\* executing or fetching.
C6_CheckNeverRaises ==
    op = "check_connection" =>
        /\ result.outcome # "raise"
        /\ pc = "done" =>
              /\ result.outcome = "return"
              /\ fetched = <<<<<<PyInt(1)>>>>>> => result.value = <<TRUE, <<>>>>
              /\ exception # <<>> => result.value = <<FALSE, exception>>

C6_Witness ==
    /\ op = "check_connection"
    /\ pc = "done"
    /\ exception = <<"timeout">>
    /\ opened_cursors = 1
    /\ result.value = <<FALSE, <<"timeout">>>>

\* C7: get_json_schema never raises; when catalog introspection fails or
\* processing a catalog row fails it returns the fallback descriptor, with
\* nothing of the rows processed before the failure.
C7_SchemaFallback ==
    (op = "get_json_schema" /\ pc = "done") =>
        /\ result.outcome = "return"
        /\ exception # <<>> => result.value = FallbackSchema

C7_Witness ==
    /\ op = "get_json_schema"
    /\ pc = "done"
    /\ exception = <<"AttributeError">>
    /\ fetched # <<>>
    /\ Len(fetched[1]) = 2
    /\ fetched[1][1][1] = PyStr(<<"n", "o", "t", "e">>)
    /\ fetched[1][1][3] # PyNone
    /\ result.value = FallbackSchema

\* the canonical type the type-mapping table gives a data type
CanonicalType(data_type) ==
    IF data_type.ty # "str" THEN "string"
    ELSE LET base == Lower(BeforeFirst(data_type.s, "("))
         IN  CASE base \in {<<"i", "n", "t">>, <<"i", "n", "t", "e", "g", "e", "r">>, <<"b", "i", "g", "i", "n", "t">>, <<"l", "o", "n", "g">>} -> "integer"
               [] base \in {<<"d", "o", "u", "b", "l", "e">>, <<"f", "l", "o", "a", "t">>, <<"d", "e", "c", "i", "m", "a", "l">>} -> "number"
               [] base \in {<<"b", "o", "o", "l", "e", "a", "n">>, <<"b", "o", "o", "l">>} -> "boolean"
               [] base = <<"a", "r", "r", "a", "y">> -> "array"
               [] base \in {<<"m", "a", "p">>, <<"s", "t", "r", "u", "c", "t">>} -> "object"
               [] OTHER -> "string"

\* the catalog rows as get_table_schema returned them
CatalogRecords == [i \in 1..Len(fetched[1]) |-> Zip(columns, fetched[1][i])]

IsColumn(column) ==
    LET column_name == DictGet(column, "col_name", PyNone)
    IN  /\ column_name.ty = "str"
        /\ column_name.s # <<>>
        /\ column_name.s # <<"#", " ", "c", "o", "l", "_", "n", "a", "m", "e">>

IsRequired(column) ==
    LET comment == DictGet(column, "comment", PyNone)
    IN  comment.ty = "str" => ~Contains(Lower(comment.s), <<"n", "u", "l", "l", "a", "b", "l", "e">>)

\* C8: for every list of catalog rows returned without error the descriptor
\* has exactly the rows with a non-empty column name other than the header
\* marker as properties, each with the canonical type of its data type, and
\* as required list those of them whose comment does not contain
\* "nullable", in row order.
C8_SchemaFromRows ==
    (op = "get_json_schema" /\ pc = "done" /\ fetched # <<>>) =>
        LET kept == SelectSeq(CatalogRecords, IsColumn)
            required == SelectSeq(kept, IsRequired)
        IN  /\ result.outcome = "return"
            /\ DOMAIN result.value.properties =
                   {kept[i]["col_name"].s : i \in 1..Len(kept)}
            /\ \A i \in 1..Len(kept) :
                   (\A j \in (i + 1)..Len(kept) :
                        kept[j]["col_name"] # kept[i]["col_name"])
                   => result.value.properties[kept[i]["col_name"].s] =
                          CanonicalType(DictGet(kept[i], "data_type", PyNone))
            /\ result.value.required =
                   [i \in 1..Len(required) |-> required[i]["col_name"].s]

\* C9: the single stream streams(config) returns is named c_s_t after the
\* catalog c, schema s and table t of the configuration, whatever the other
\* configuration fields.
C9_StreamName ==
    (op = "streams" /\ pc = "done" /\ result.outcome = "return") =>
        result.value =
            <<config["catalog"].s \o <<"_">> \o config["schema"].s
                  \o <<"_">> \o config["table"].s>>

C9_Witness ==
    /\ op = "streams"
    /\ pc = "done"
    /\ result.outcome = "return"
    /\ config["catalog"] # config["schema"]
    /\ config["schema"] # config["table"]
    /\ "cursor_field" \in DOMAIN config
    /\ Len(result.value) = 1

\* C10: a call of execute_query opens at most one connection and one cursor,
\* whether it returns rows or raises at any step, and has closed all it
\* opened when it ends; no connection is open between calls.
C10_ScopedConnection ==
    /\ op \in ViaExecuteQuery =>
          /\ opened_connections <= 1
          /\ opened_cursors <= 1
          /\ pc = "done" => (open_connections = 0 /\ open_cursors = 0)
    /\ pc = "idle" => (open_connections = 0 /\ open_cursors = 0)

C10_Witness ==
    /\ op \in ViaExecuteQuery
    /\ pc = "done"
    /\ result.outcome = "raise"
    /\ opened_connections = 1
    /\ opened_cursors = 1
    /\ open_connections = 0
    /\ open_cursors = 0

\* C11: when the query fails during read_records the error is re-raised to
\* the caller with its text, no record is yielded, and the query was
\* attempted once: one connection, one cursor and one statement at most,
\* and the call has ended.
C11_ReadFailureReraised ==
    (op = "read_records" /\ exception # <<>>) =>
        /\ pc = "done"
        /\ result = [outcome |-> "raise", value |-> exception[1]]
        /\ fetched = <<>>
        /\ Len(statement) <= 1
        /\ opened_connections <= 1
        /\ opened_cursors <= 1

C11_Witness ==
    /\ ReadDone
    /\ sync_mode = "incremental"
    /\ exception = <<"denied">>
    /\ Len(statement) = 1
    /\ columns # <<>>
    /\ result.outcome = "raise"

----------------------------------------------------------------------------
\* Successive incremental syncs: the host calls read_records with the state
\* the previous sync returned and applies get_updated_state to every record
\* read_records yields. The warehouse answers the statement it is handed.

MaxTableRows == 2
MaxCursor == 2
MaxSyncs == 2

\* the values a cursor column can hold, by the type of the column
ColumnValues(ty) ==
    CASE ty = "str" ->
            {PyStr(NatToStr(n)) : n \in 1..MaxCursor} \cup {PyStr(<<>>), PyNone}
      [] ty = "int" -> {PyInt(n) : n \in 0..MaxCursor} \cup {PyNone}
      [] OTHER -> {PyDatetime(n) : n \in 1..MaxCursor} \cup {PyNone}

ColumnTypes == {"str", "int", "datetime"}

\* the text of every value a statement of the model can quote
Literals ==
    {Format(v) : v \in ColumnValues("str") \cup ColumnValues("int")}
        \cup {isoformat(v).s : v \in ColumnValues("datetime") \ {PyNone}}

\* the statement filters: WHERE <key> > '<lit>'
HasFilter(stmt, key, lit) ==
    Contains(stmt, WHERE \o key \o GREATER_QUOTE \o lit \o QUOTE)

\* the warehouse's <column> > '<lit>': the literal is cast to the type of
\* the column, null is greater than nothing
SqlGreater(v, lit) ==
    CASE v.ty = "str" -> StrGreater(v.s, lit)
      [] v.ty = "int" ->
            \E n \in 0..MaxCursor : Format(PyInt(n)) = lit /\ v.n > n
      [] v.ty = "datetime" ->
            \E n \in 1..MaxCursor :
                isoformat(PyDatetime(n)).s = lit /\ v.n > n
      [] OTHER -> FALSE

\* ascending order of ORDER BY, nulls first, rows of equal value by position
SqlBefore(tbl, i, j) ==
    IF tbl[i] = tbl[j] THEN i < j
    ELSE IF tbl[i].ty = "none" THEN TRUE
    ELSE IF tbl[j].ty = "none" THEN FALSE
    ELSE IF tbl[i].ty = "str" THEN StrGreater(tbl[j].s, tbl[i].s)
    ELSE tbl[i].n < tbl[j].n

RECURSIVE SqlOrdered(_, _)
SqlOrdered(tbl, rows) ==
    IF rows = {} THEN <<>>
    ELSE LET first == CHOOSE i \in rows :
                          \A j \in rows \ {i} : SqlBefore(tbl, i, j)
         IN  <<first>> \o SqlOrdered(tbl, rows \ {first})

RECURSIVE InPosition(_)
InPosition(rows) ==
    IF rows = {} THEN <<>>
    ELSE LET first == CHOOSE i \in rows : \A j \in rows : i <= j
         IN  <<first>> \o InPosition(rows \ {first})

\* the rows, by position in the table, the warehouse returns for the
\* statement get_table_data built
warehouse_select(stmt, tbl, key) ==
    LET all == 1..Len(tbl)
        rows == IF Contains(stmt, WHERE)
                THEN {i \in all : \E lit \in Literals :
                         HasFilter(stmt, key, lit) /\ SqlGreater(tbl[i], lit)}
                ELSE all
    IN  IF Contains(stmt, ORDER_BY \o key) THEN SqlOrdered(tbl, rows)
        ELSE InPosition(rows)

\* the row as execute_query returns it: dict(zip(columns, row))
RowRecord(cfg, v) ==
    Zip(<<CursorKey(cfg), OtherColumn(cfg)>>, <<v, PyStr(<<"1">>)>>)

SyncInit ==
    /\ config \in {c \in Configs : /\ "workspace_url" \in DOMAIN c
                                   /\ Truthy(cursor_field(c))
                                   /\ c["catalog"] = PyStr(<<"c">>)
                                   /\ c["schema"] = PyStr(<<"c">>)
                                   /\ c["table"] = PyStr(<<"c">>)}
    /\ \E ty \in ColumnTypes :
          table \in UNION {[1..k -> ColumnValues(ty)] : k \in 1..MaxTableRows}
    /\ stream_state \in
           {EmptyDict, DictSet(EmptyDict, CursorKey(config), PyStr(<<"1">>)),
            DictSet(EmptyDict, CursorKey(config), PyInt(1))}
    /\ initial_state = stream_state
    /\ seen = {}
    /\ raised = FALSE
    /\ calls = 0
    /\ op = "read_records"
    /\ sync_mode = "incremental"
    /\ pc = "idle"
    /\ statement = <<>>
    /\ open_connections = 0
    /\ open_cursors = 0
    /\ opened_connections = 0
    /\ opened_cursors = 0
    /\ columns = <<>>
    /\ fetched = <<>>
    /\ exception = <<>>
    /\ result = NoResult
    /\ pending = <<>>
    /\ emitted_now = {}
    /\ emitted_before = {}
    /\ syncs = 0

\* read_records("incremental", stream_state=<the state of the last sync>):
\* the statement is executed and the rows are fetched before the first yield
StartSync ==
    /\ pc = "idle"
    /\ syncs < MaxSyncs
    /\ LET query == read_records_query(config, sync_mode, stream_state)
           rows == warehouse_select(query, table, CursorKey(config))
           records == [i \in 1..Len(rows) |-> RowRecord(config, table[rows[i]])]
           yielded == read_records_result(records).value
       IN  /\ statement' = <<query>>
           /\ pending' = [i \in 1..Len(rows) |->
                             [row |-> rows[i], record |-> yielded[i]]]
    /\ initial_state' = stream_state
    /\ emitted_now' = {}
    /\ exception' = <<>>
    /\ pc' = "syncing"
    /\ UNCHANGED <<config, stream_state, seen, raised, calls, op,
                   sync_mode, open_connections, open_cursors,
                   opened_connections, opened_cursors, columns, fetched,
                   result, table, emitted_before, syncs>>

\* the query fails: read_records re-raises and the sync ends with no record
StartSyncFails(text) ==
    /\ pc = "idle"
    /\ syncs < MaxSyncs
    /\ statement' =
           <<read_records_query(config, sync_mode, stream_state)>>
    /\ initial_state' = stream_state
    /\ emitted_now' = {}
    /\ exception' = <<text>>
    /\ pending' = <<>>
    /\ pc' = "syncing"
    /\ UNCHANGED <<config, stream_state, seen, raised, calls, op,
                   sync_mode, open_connections, open_cursors,
                   opened_connections, opened_cursors, columns, fetched,
                   result, table, emitted_before, syncs>>

\* read_records yields the next record and the host applies
\* get_updated_state to it; a TypeError of the comparison ends the sync
Advance ==
    /\ pc = "syncing"
    /\ pending # <<>>
    /\ LET next == Head(pending)
           fails == get_updated_state_raises(config, stream_state, next.record)
       IN  /\ emitted_now' = emitted_now \cup {next.row}
           /\ stream_state' =
                  get_updated_state(config, stream_state, next.record)
           /\ raised' = (raised \/ fails)
           /\ pending' = IF fails THEN <<>> ELSE Tail(pending)
    /\ UNCHANGED <<config, initial_state, seen, calls, call_vars, table,
                   emitted_before, syncs>>

\* the sync ends; the host keeps stream_state for the next sync
EndSync ==
    /\ pc = "syncing"
    /\ pending = <<>>
    /\ emitted_before' = emitted_before \cup emitted_now
    /\ emitted_now' = {}
    /\ syncs' = syncs + 1
    /\ pc' = "idle"
    /\ UNCHANGED <<state_vars, op, sync_mode, statement, open_connections,
                   open_cursors, opened_connections, opened_cursors, columns,
                   fetched, exception, result, table, pending>>

\* between syncs a row is added to the table; existing rows stay as they are
InsertRow(v) ==
    /\ pc = "idle"
    /\ Len(table) < MaxTableRows
    /\ \E ty \in ColumnTypes :
          v \in ColumnValues(ty) /\ \A i \in 1..Len(table) :
              table[i] \in ColumnValues(ty)
    /\ table' = Append(table, v)
    /\ UNCHANGED <<state_vars, call_vars, pending, emitted_now,
                   emitted_before, syncs>>

SyncNext ==
    \/ StartSync
    \/ \E text \in ErrorTexts : StartSyncFails(text)
    \/ Advance
    \/ EndSync
    \/ \E ty \in ColumnTypes : \E v \in ColumnValues(ty) : InsertRow(v)

SyncSpec == SyncInit /\ [][SyncNext]_vars

\* the watermark the sync was started with and the cursor value of a row as
\* its record carries it
Watermark == DictGet(initial_state, CursorKey(config), PyNone)

EmittedValue(i) == _process_record(RowRecord(config, table[i]))[CursorKey(config)]

====
